---- MODULE Spec2Model ----
(***************************************************************************)
(* Ducky: the pipeline coordinator (admission control), the code review    *)
(* pipeline executor with its warning model, and the agents it drives.     *)
(*                                                                         *)
(* Two specifications share the module:                                    *)
(*   Spec / FairSpec   the PipelineCoordinator, the ChatStateService and   *)
(*                     the tasks execute_if_available schedules;           *)
(*   PipelineSpec      one run of CodeReviewPipeline.execute over the      *)
(*                     ordered agent list.                                 *)
(***************************************************************************)
EXTENDS Integers, Sequences, FiniteSets, TLC

(***************************************************************************)
(* Bounds of the model.                                                    *)
(***************************************************************************)
NumProjects == 3
MaxCapacity == 2
MaxTasks == 4

Projects == 1..NumProjects
NotificationIds == {"n1"}
NoneValue == "None"

VARIABLES
    \* PipelineCoordinator and ChatStateService
    max_concurrent_pipelines,
    running_pipelines,
    is_chat_active,
    active_notification_id,
    tasks,
    last_call,
    last_done,
    \* one run of CodeReviewPipeline.execute
    changes,
    run_project_id,
    pstatus,
    stage,
    context,
    notification,
    solution,
    output,
    last_event,
    last_invoked,
    cancel_at,
    \* the ChangeScanner loop of one project, its directory and its snapshot
    disk,
    db,
    last_scan_timestamp,
    now,
    last_tick,
    \* a call of PipelineCoordinator.wait_for_completion
    waiter

coordVars == <<max_concurrent_pipelines, running_pipelines, is_chat_active,
               active_notification_id, tasks, last_call, last_done>>

pipeVars == <<changes, run_project_id, pstatus, stage, context, notification,
              solution, output, last_event, last_invoked, cancel_at>>

scanVars == <<disk, db, last_scan_timestamp, now, last_tick>>

waitVars == <<waiter>>

vars == <<coordVars, pipeVars, scanVars, waitVars>>

(***************************************************************************)
(* Optional values: None is the empty sequence, a value x is <<x>>.        *)
(***************************************************************************)
None == <<>>
Some(x) == <<x>>
Get(opt) == opt[1]

(***************************************************************************)
(* Text content is a sequence of characters, so that str.strip() and       *)
(* str.split() are computed.  The alphabet has a blank and letters, and no *)
(* comment, quote or newline characters.                                   *)
(***************************************************************************)
RECURSIVE lstrip(_)
lstrip(s) ==
    IF s = <<>> THEN s
    ELSE IF Head(s) = " " THEN lstrip(Tail(s)) ELSE s

RECURSIVE rstrip(_)
rstrip(s) ==
    IF s = <<>> THEN s
    ELSE IF s[Len(s)] = " " THEN rstrip(SubSeq(s, 1, Len(s) - 1)) ELSE s

\* str.strip()
strip(s) == rstrip(lstrip(s))

\* ' '.join(code.split()): runs of blanks become one blank, none at the ends.
RECURSIVE collapse(_)
collapse(s) ==
    IF Len(s) < 2 THEN s
    ELSE IF s[1] = " " /\ s[2] = " " THEN collapse(Tail(s))
    ELSE <<s[1]>> \o collapse(Tail(s))

clean_code(code) == strip(collapse(code))

\* InitialAssessment._is_trivial_change
is_trivial_change(old, new) ==
    IF strip(old) = strip(new) THEN TRUE
    ELSE clean_code(old) = clean_code(new)

(***************************************************************************)
(* FileChange, and the change lists a run is given.                        *)
(***************************************************************************)
OldContents == {<<>>, <<" ">>, <<"a">>}
NewContents == {<<>>, <<" ">>, <<"a">>, <<"b">>}

FileChange(path, old, new, is_new) ==
    [path |-> path, old_version |-> old, new_version |-> new, is_new_file |-> is_new]

\* get_changes: a new file has old_version '' (compare_versions.py line 74).
HeadChanges ==
    {c \in {FileChange("f.py", o, n, b) :
                o \in OldContents, n \in NewContents, b \in BOOLEAN} :
        c.is_new_file => c.old_version = <<>>}

OtherChange == FileChange("g.py", <<"b">>, <<"a">>, FALSE)

\* Lists of two changes: a head the validation accepts and one it rejects.
TwoChangeHeads ==
    {FileChange("f.py", <<"a">>, <<"b">>, FALSE), FileChange("f.py", <<>>, <<>>, FALSE)}

ChangeLists ==
    {<<>>} \cup {<<h>> : h \in HeadChanges} \cup {<<h, OtherChange>> : h \in TwoChangeHeads}

(***************************************************************************)
(* WarningMessage (models/pipeline_models.py).  confidence is in           *)
(* hundredths.                                                             *)
(***************************************************************************)
EmptyWarning ==
    [title |-> "", severity |-> "medium", description |-> <<>>, suggestions |-> <<>>,
     affected_files |-> <<>>, confidence |-> 0, metadata |-> <<>>]

\* WarningMessage.add_agent_analysis: appends one record to metadata (and
\* returns None).
add_agent_analysis(warning, agent_name) ==
    [warning EXCEPT !.metadata = Append(@, agent_name)]

\* The current_warning a fresh AgentContext holds: an empty WarningMessage
\* (models/pipeline_models.py) or None (utils/pipeline.py).
InitialWarnings == {Some(EmptyWarning), None}

\* bool(obj) of an Optional[WarningMessage]: a dataclass instance is truthy.
Truthy(opt_warning) == opt_warning # None

(***************************************************************************)
(* PipelineContextManager._is_valid_content and create_context_from_changes*)
(***************************************************************************)
is_valid_content_NoStrip(change, old_version, new_version) ==
    IF old_version = <<>> /\ new_version = <<>> THEN FALSE
    ELSE IF change.is_new_file /\ new_version = <<>> THEN FALSE
    ELSE IF ~change.is_new_file /\ old_version = <<>> /\ new_version = <<>> THEN FALSE
    ELSE TRUE

is_valid_content(change, old_version, new_version) ==
    IF old_version = <<>> /\ new_version = <<>> THEN FALSE
    ELSE IF change.is_new_file /\ strip(new_version) = <<>> THEN FALSE
    ELSE IF ~change.is_new_file /\ old_version = <<>> /\ new_version = <<>> THEN FALSE
    ELSE TRUE

create_context_from_changes_LastChange(chs, pid, initial_warning) ==
    IF chs = <<>> THEN None
    ELSE LET change == chs[Len(chs)]
             old_version == change.old_version
             new_version == change.new_version
         IN  IF ~is_valid_content(change, old_version, new_version) THEN None
             ELSE Some([old_version |-> old_version,
                        new_version |-> new_version,
                        file_path |-> change.path,
                        project_id |-> pid,
                        current_warning |-> initial_warning])

create_context_from_changes(chs, pid, initial_warning) ==
    IF chs = <<>> THEN None
    ELSE LET change == chs[1]
             old_version == change.old_version
             new_version == change.new_version
         IN  IF ~is_valid_content(change, old_version, new_version) THEN None
             ELSE Some([old_version |-> old_version,
                        new_version |-> new_version,
                        file_path |-> change.path,
                        project_id |-> pid,
                        current_warning |-> initial_warning])

(***************************************************************************)
(* CodeReviewPipeline.execute                                              *)
(***************************************************************************)
Agents == <<"InitialAssessment", "NotificationAssessment", "ContextAwareness",
            "SyntaxValidation", "NotificationWriter", "CodeWriter">>
NumAgents == Len(Agents)

NoEvent == [stage |-> 0, ev |-> "none"]
Event(k, ev) == [stage |-> k, ev |-> ev]

(***************************************************************************)
(* InitialAssessment.  An answer of the LLM is one of: a JSON object (its  *)
(* fields as response_data.get reads them), text that is not JSON, or a    *)
(* failed call.                                                            *)
(***************************************************************************)
DefaultTitle == "Code change requires review"

InitialResponses ==
    { [kind |-> "json", should_continue |-> FALSE, title |-> "T",
       severity |-> "high", confidence |-> 90, suggestions |-> <<>>],
      [kind |-> "json", should_continue |-> TRUE, title |-> "T",
       severity |-> "high", confidence |-> 120, suggestions |-> <<"s1">>],
      [kind |-> "json", should_continue |-> TRUE, title |-> "",
       severity |-> "low", confidence |-> -20, suggestions |-> <<>>],
      [kind |-> "text", should_continue |-> TRUE, title |-> DefaultTitle,
       severity |-> "medium", confidence |-> 50, suggestions |-> <<>>],
      [kind |-> "llm_error", should_continue |-> TRUE, title |-> DefaultTitle,
       severity |-> "medium", confidence |-> 50, suggestions |-> <<>>] }

\* InitialAssessment._parse_response
parse_response(response, ctx) ==
    IF response.kind = "json"
      THEN IF ~response.should_continue THEN None
           ELSE Some(add_agent_analysis(
                    [EmptyWarning EXCEPT
                        !.title = response.title,
                        !.severity = response.severity,
                        !.confidence = response.confidence,
                        !.description = Append(@, "description"),
                        !.affected_files = Append(@, ctx.file_path),
                        !.suggestions = @ \o response.suggestions],
                    "InitialAssessment"))
      ELSE \* json.JSONDecodeError
           Some(add_agent_analysis(
                    [EmptyWarning EXCEPT
                        !.title = DefaultTitle,
                        !.description = Append(@, "raw response"),
                        !.affected_files = Append(@, ctx.file_path),
                        !.confidence = 50],
                    "InitialAssessment"))

\* InitialAssessment.analyze, the handler of a failed LLM call.
fallback_warning(ctx) ==
    add_agent_analysis(
        [EmptyWarning EXCEPT
            !.title = DefaultTitle,
            !.description = Append(@, "manual review recommended"),
            !.affected_files = Append(@, ctx.file_path),
            !.confidence = 30],
        "InitialAssessment")

\* InitialAssessment.analyze: <<signal, warning>>
InitialAssessment_analyze(ctx, response) ==
    IF is_trivial_change(ctx.old_version, ctx.new_version)
      THEN <<"CANCEL", None>>
    ELSE IF response.kind = "llm_error"
      THEN <<"CONTINUE", Some(fallback_warning(ctx))>>
    ELSE LET warning == parse_response(response, ctx)
         IN  IF warning = None THEN <<"CANCEL", None>>
             ELSE <<"CONTINUE", warning>>

(***************************************************************************)
(* NotificationAssessment.analyze                                          *)
(***************************************************************************)
DismissalRuns ==
    { [dismissals |-> FALSE, failed |-> FALSE, should_notify |-> TRUE],
      [dismissals |-> TRUE, failed |-> FALSE, should_notify |-> TRUE],
      [dismissals |-> TRUE, failed |-> FALSE, should_notify |-> FALSE],
      [dismissals |-> TRUE, failed |-> TRUE, should_notify |-> FALSE] }

NotificationAssessment_analyze(ctx, run) ==
    IF ~Truthy(ctx.current_warning) THEN <<"CONTINUE", ctx.current_warning>>
    ELSE IF run.failed THEN <<"CONTINUE", ctx.current_warning>>
    ELSE IF ~run.dismissals THEN <<"CONTINUE", ctx.current_warning>>
    ELSE IF ~run.should_notify THEN <<"CANCEL", None>>
    ELSE <<"CONTINUE", ctx.current_warning>>

(***************************************************************************)
(* ContextAwareness.  A run of the RAG loop ends with files retrieved or   *)
(* not, and a final analysis of the LLM.                                   *)
(***************************************************************************)
DefaultImpact == 10

Analysis(cancel, ctxt, insights, new_suggestions, justification, numeric, impact) ==
    [cancel_pipeline |-> cancel, additional_context |-> ctxt,
     context_insights |-> insights, new_suggestions |-> new_suggestions,
     justification |-> justification, impact_is_number |-> numeric,
     confidence_impact |-> impact]

FinalAnalyses ==
    { Analysis(TRUE, FALSE, FALSE, <<>>, FALSE, TRUE, DefaultImpact),
      Analysis(FALSE, FALSE, FALSE, <<>>, FALSE, TRUE, DefaultImpact),
      Analysis(FALSE, TRUE, TRUE, <<"s2">>, TRUE, TRUE, 80),
      Analysis(FALSE, TRUE, FALSE, <<>>, FALSE, TRUE, -50),
      Analysis(FALSE, TRUE, TRUE, <<"s2">>, TRUE, FALSE, 0) }

RagRuns ==
    { [needs_rag |-> FALSE, files |-> 0, analysis_failed |-> FALSE],
      [needs_rag |-> TRUE, files |-> 0, analysis_failed |-> FALSE],
      [needs_rag |-> TRUE, files |-> 1, analysis_failed |-> TRUE],
      [needs_rag |-> TRUE, files |-> 1, analysis_failed |-> FALSE] }

Min(a, b) == IF a < b THEN a ELSE b

enhance_warning_with_context_ReplaceSuggestions(warning, analysis) ==
    add_agent_analysis([warning EXCEPT !.suggestions = analysis.new_suggestions],
                       "ContextAwareness")

enhance_warning_with_context_SetsTitle(warning, analysis) ==
    add_agent_analysis([warning EXCEPT !.title = "Context"], "ContextAwareness")

\* ContextAwareness._enhance_warning_with_context: the warning is changed in
\* place; with a confidence_impact that is not a number the addition on the
\* last line raises after the lists have grown.
enhance_warning_with_context(warning, analysis) ==
    LET w1 == IF analysis.additional_context
                THEN [warning EXCEPT !.description = Append(@, "Context")]
                ELSE warning
        w2 == IF analysis.context_insights
                THEN [w1 EXCEPT !.description = Append(@, "Broader insights")]
                ELSE w1
        w3 == [w2 EXCEPT !.suggestions = @ \o analysis.new_suggestions]
        w4 == IF analysis.justification
                THEN [w3 EXCEPT !.suggestions = Append(@, "Architectural context")]
                ELSE w3
        w5 == add_agent_analysis(w4, "ContextAwareness")
    IN  IF analysis.impact_is_number
          THEN [w5 EXCEPT !.confidence = Min(100, @ + analysis.confidence_impact)]
          ELSE w5

\* ContextAwareness.analyze with _synthesize_final_result
ContextAwareness_analyze(ctx, run, analysis) ==
    IF ~Truthy(ctx.current_warning) THEN <<"CONTINUE", ctx.current_warning>>
    ELSE IF ~run.needs_rag THEN <<"CONTINUE", ctx.current_warning>>
    ELSE IF run.files = 0 THEN <<"CONTINUE", ctx.current_warning>>
    ELSE IF run.analysis_failed THEN <<"CONTINUE", ctx.current_warning>>
    ELSE IF analysis.cancel_pipeline THEN <<"CANCEL", None>>
    ELSE <<"CONTINUE", Some(enhance_warning_with_context(Get(ctx.current_warning), analysis))>>

(***************************************************************************)
(* SyntaxValidation                                                        *)
(***************************************************************************)
severity_levels == <<"low", "medium", "high", "critical">>
SeverityAdjustments == {"none", "increase", "decrease"}

IndexOf(seq, x) == CHOOSE i \in DOMAIN seq : seq[i] = x

\* SyntaxValidation._adjust_severity
adjust_severity(current_severity, adjustment) ==
    IF adjustment = "none" THEN current_severity
    ELSE IF ~(\E i \in DOMAIN severity_levels : severity_levels[i] = current_severity)
      THEN current_severity
    ELSE LET current_index == IndexOf(severity_levels, current_severity)
         IN  IF adjustment = "increase" /\ current_index < Len(severity_levels)
               THEN severity_levels[current_index + 1]
             ELSE IF adjustment = "decrease" /\ current_index > 1
               THEN severity_levels[current_index - 1]
             ELSE current_severity

\* SyntaxValidation._enhance_warning_with_syntax.  add_agent_analysis returns
\* None, so the assignment to enhanced_warning.severity raises AttributeError
\* once the metadata has grown; building the description raises before.
enhance_warning_with_syntax(warning, description_fails, adjustment) ==
    IF description_fails
      THEN [raised |-> TRUE, warning |-> warning]
      ELSE [raised |-> TRUE, warning |-> add_agent_analysis(warning, "SyntaxValidation")]

\* SyntaxValidation.analyze
SyntaxValidation_analyze(ctx, description_fails, adjustment) ==
    IF ~Truthy(ctx.current_warning) THEN <<"CONTINUE", ctx.current_warning>>
    ELSE LET r == enhance_warning_with_syntax(Get(ctx.current_warning),
                                              description_fails, adjustment)
         IN  IF r.raised
               THEN <<"CONTINUE", Some(add_agent_analysis(r.warning, "SyntaxValidation"))>>
               ELSE <<"CONTINUE", Some(r.warning)>>

(***************************************************************************)
(* NotificationWriter and CodeWriter: the texts analyze can return.        *)
(***************************************************************************)
NotificationWriter_texts(ctx) ==
    IF ~Truthy(ctx.current_warning) THEN {"no warning notification"}
    ELSE {"llm notification", "",
          IF Get(ctx.current_warning).severity \in {"high", "critical"}
            THEN "important fallback notification"
            ELSE "fallback notification"}

CodeWriter_texts(ctx) ==
    IF ~Truthy(ctx.current_warning) THEN {"original code"}
    ELSE {"llm solution", "fallback solution"}

\* models.PipelineResult
PipelineResult == {"CONTINUE", "CANCEL"}

\* The pipeline variables while the coordinator is studied.
PipeIdle ==
    /\ changes = <<>>
    /\ run_project_id = 1
    /\ pstatus = "NOT_STARTED"
    /\ stage = 0
    /\ context = None
    /\ notification = ""
    /\ solution = ""
    /\ output = None
    /\ last_event = NoEvent
    /\ last_invoked = 0
    /\ cancel_at = 0

(***************************************************************************)
(* The project directory and the snapshot (table files) of one project.    *)
(* Times are whole numbers; a file that cannot be read is kept apart from  *)
(* a file with content.                                                    *)
(***************************************************************************)
MaxTime == 3

Paths == {"a", "b"}
PathOrder == <<"a", "b">>

Absent == [kind |-> "absent", content |-> <<>>, mtime |-> 0]
DiskDir(m) == [kind |-> "dir", content |-> <<>>, mtime |-> m]
DiskFile(c, m) == [kind |-> "file", content |-> c, mtime |-> m]
DiskUnreadable(m) == [kind |-> "unreadable", content |-> <<>>, mtime |-> m]

\* What the directory holds in the model: path a is anything, path b is a
\* text file or nothing.
FileContents(path) ==
    IF path = "a" THEN {<<>>, <<"a">>, <<"b">>} ELSE {<<"b">>}
MayBeDir(path) == path = "a"
MayBeUnreadable(path) == path = "a"

NoRow == [present |-> FALSE, is_dir |-> FALSE, content |-> <<>>]
Row(is_dir, content) == [present |-> TRUE, is_dir |-> is_dir, content |-> content]

DiskEntries(path, m) ==
    {Absent} \cup {DiskFile(c, m) : c \in FileContents(path)}
             \cup (IF MayBeDir(path) THEN {DiskDir(m)} ELSE {})
             \cup (IF MayBeUnreadable(path) THEN {DiskUnreadable(m)} ELSE {})

\* Rows post_project and post_changes can have written.
DbRows(path) ==
    {NoRow} \cup {Row(FALSE, c) : c \in FileContents(path)}
            \cup (IF MayBeDir(path) THEN {Row(TRUE, <<>>)} ELSE {})

\* read_file_content: the text, or '' when the file cannot be read.
read_file_content(entry) ==
    IF entry.kind = "file" THEN entry.content ELSE <<>>

ScannedChange(path, old, new, is_dir, is_new) ==
    [path |-> path, old_version |-> old, new_version |-> new,
     is_dir |-> is_dir, is_new_file |-> is_new]

\* get_codebase_metadata: the entries of the directory, directories first.
LocalFiles(dsk) ==
    SelectSeq(PathOrder, LAMBDA p : dsk[p].kind = "dir")
        \o SelectSeq(PathOrder, LAMBDA p : dsk[p].kind \in {"file", "unreadable"})

local_change_NotStrict(rows, dsk, path, T) ==
    LET is_new == ~rows[path].present
        is_dir == dsk[path].kind = "dir"
        should_include ==
            IF is_new THEN TRUE
            ELSE IF ~is_dir THEN dsk[path].mtime >= T
            ELSE FALSE
    IN  IF is_dir /\ ~is_new THEN <<>>
        ELSE IF ~should_include THEN <<>>
        ELSE <<ScannedChange(path,
                             IF is_new THEN <<>> ELSE rows[path].content,
                             IF is_dir THEN <<>> ELSE read_file_content(dsk[path]),
                             is_dir, is_new)>>

\* get_changes, lines 48-92: the change of one local entry, or nothing.
local_change(rows, dsk, path, T) ==
    LET is_new == ~rows[path].present
        is_dir == dsk[path].kind = "dir"
        should_include ==
            IF is_new THEN TRUE
            ELSE IF ~is_dir THEN dsk[path].mtime > T
            ELSE FALSE
    IN  IF is_dir /\ ~is_new THEN <<>>
        ELSE IF ~should_include THEN <<>>
        ELSE <<ScannedChange(path,
                             IF is_new THEN <<>> ELSE rows[path].content,
                             IF is_dir THEN <<>> ELSE read_file_content(dsk[path]),
                             is_dir, is_new)>>

RECURSIVE local_changes(_, _, _, _)
local_changes(rows, dsk, files, T) ==
    IF files = <<>> THEN <<>>
    ELSE local_change(rows, dsk, Head(files), T)
            \o local_changes(rows, dsk, Tail(files), T)

\* get_changes, lines 94-106: rows whose path is not in the directory.
RECURSIVE deleted_changes(_, _, _)
deleted_changes(rows, dsk, paths) ==
    IF paths = <<>> THEN <<>>
    ELSE (IF rows[Head(paths)].present /\ dsk[Head(paths)].kind = "absent"
            THEN <<ScannedChange(Head(paths), rows[Head(paths)].content, <<>>,
                                 rows[Head(paths)].is_dir, FALSE)>>
            ELSE <<>>)
         \o deleted_changes(rows, dsk, Tail(paths))

get_changes_NoFirstScanCheck(rows, dsk, last_ts) ==
    LET T == IF last_ts = None THEN 0 - 1 ELSE Get(last_ts)
    IN  local_changes(rows, dsk, LocalFiles(dsk), T)
            \o deleted_changes(rows, dsk, PathOrder)

get_changes(rows, dsk, last_ts) ==
    IF last_ts = None THEN <<>>
    ELSE local_changes(rows, dsk, LocalFiles(dsk), Get(last_ts))
            \o deleted_changes(rows, dsk, PathOrder)

\* post_changes, lines 23-48: one change written to the table.
post_change_KeepDeleted(rows, change) ==
    IF change.new_version = <<>> THEN rows
    ELSE IF rows[change.path].present
      THEN [rows EXCEPT ![change.path].content = change.new_version]
    ELSE [rows EXCEPT ![change.path] = Row(change.is_dir, change.new_version)]

post_change(rows, change) ==
    IF change.new_version = <<>>
      THEN [rows EXCEPT ![change.path] = NoRow]
    ELSE IF rows[change.path].present
      THEN [rows EXCEPT ![change.path].content = change.new_version]
    ELSE [rows EXCEPT ![change.path] = Row(change.is_dir, change.new_version)]

RECURSIVE post_changes(_, _)
post_changes(rows, chs) ==
    IF chs = <<>> THEN rows
    ELSE post_changes(post_change(rows, Head(chs)), Tail(chs))

NoTick == [T |-> None, changes |-> <<>>, steps |-> <<>>, written |-> FALSE,
           offered |-> FALSE, started |-> FALSE]

\* wait_for_completion has not been called.
\*   pc: "idle", "sleeping" (in await asyncio.sleep(0.1)), "returned".
\*   timeout and elapsed are counted in sleeps of 0.1 s.
NoWaiter == [pc |-> "idle", timeout |-> None, elapsed |-> 0, result |-> FALSE]

WaitIdle == waiter = NoWaiter

\* The scanner variables while the coordinator or a pipeline run is studied.
ScanIdle ==
    /\ disk = [p \in Paths |-> Absent]
    /\ db = [p \in Paths |-> NoRow]
    /\ last_scan_timestamp = None
    /\ now = 0
    /\ last_tick = NoTick

(***************************************************************************)
(* ChatStateService                                                        *)
(***************************************************************************)
is_chat_active_fn == is_chat_active

(***************************************************************************)
(* PipelineCoordinator.can_start_pipeline: the three admission checks in   *)
(* the order of the code.                                                  *)
(***************************************************************************)
can_start_pipeline_NoChatCheck(project_id) ==
    IF project_id \in running_pipelines THEN FALSE
    ELSE IF Cardinality(running_pipelines) >= max_concurrent_pipelines THEN FALSE
    ELSE TRUE

can_start_pipeline_NoRunningCheck(project_id) ==
    IF is_chat_active_fn THEN FALSE
    ELSE IF Cardinality(running_pipelines) >= max_concurrent_pipelines THEN FALSE
    ELSE TRUE

can_start_pipeline_NoCapacityCheck(project_id) ==
    IF is_chat_active_fn THEN FALSE
    ELSE IF project_id \in running_pipelines THEN FALSE
    ELSE TRUE

can_start_pipeline_OffByOne(project_id) ==
    IF is_chat_active_fn THEN FALSE
    ELSE IF project_id \in running_pipelines THEN FALSE
    ELSE IF Cardinality(running_pipelines) > max_concurrent_pipelines THEN FALSE
    ELSE TRUE

can_start_pipeline(project_id) ==
    IF is_chat_active_fn THEN FALSE
    ELSE IF project_id \in running_pipelines THEN FALSE
    ELSE IF Cardinality(running_pipelines) >= max_concurrent_pipelines THEN FALSE
    ELSE TRUE

(***************************************************************************)
(* The record of the last coordinator call: the operation, its return      *)
(* value, whether it scheduled a task, and what held when it was made.     *)
(***************************************************************************)
NoCall == [op |-> "none", result |-> FALSE, scheduled |-> FALSE, added |-> FALSE,
           chat |-> FALSE, was_running |-> FALSE, at_capacity |-> FALSE]

Call(op, project_id, result, scheduled, added) ==
    [op |-> op, result |-> result, scheduled |-> scheduled, added |-> added,
     chat |-> is_chat_active,
     was_running |-> project_id \in running_pipelines,
     at_capacity |-> Cardinality(running_pipelines) >= max_concurrent_pipelines]

\* A task created by asyncio.create_task(_execute_pipeline_with_cleanup(...)).
\*   pc: "scheduled" (created, not yet run), "pipeline" (awaiting
\*   code_review_pipeline), "notify" (awaiting notify_user).
\* `tasks` holds the tasks that have not ended, in the order of creation;
\* `last_done` is how the task that ended last went.
NewTask_Started(project_id) == [project_id |-> project_id, pc |-> "pipeline"]

NewTask(project_id) == [project_id |-> project_id, pc |-> "scheduled"]

RemoveAt(seq, i) ==
    [j \in 1..(Len(seq) - 1) |-> IF j < i THEN seq[j] ELSE seq[j + 1]]

InitCoord ==
    /\ max_concurrent_pipelines \in 1..MaxCapacity
    /\ running_pipelines = {}
    /\ is_chat_active = FALSE
    /\ active_notification_id = NoneValue
    /\ tasks = <<>>
    /\ last_call = NoCall
    /\ last_done = "none"
    /\ PipeIdle
    /\ ScanIdle
    /\ WaitIdle

(***************************************************************************)
(* ChatStateService.set_chat_active / set_chat_inactive                    *)
(***************************************************************************)
set_chat_active_CancelsRuns(notification_id) ==
    /\ is_chat_active' = TRUE
    /\ active_notification_id' = notification_id
    /\ running_pipelines' = {}
    /\ tasks' = <<>>
    /\ UNCHANGED <<pipeVars, scanVars, waitVars>>
    /\ UNCHANGED <<max_concurrent_pipelines, last_call, last_done>>

set_chat_active(notification_id) ==
    /\ is_chat_active' = TRUE
    /\ active_notification_id' = notification_id
    /\ UNCHANGED <<pipeVars, scanVars, waitVars>>
    /\ UNCHANGED <<max_concurrent_pipelines, running_pipelines, tasks,
                   last_call, last_done>>

set_chat_inactive ==
    /\ IF is_chat_active
         THEN /\ is_chat_active' = FALSE
              /\ active_notification_id' = NoneValue
         ELSE UNCHANGED <<is_chat_active, active_notification_id>>
    /\ UNCHANGED <<pipeVars, scanVars, waitVars>>
    /\ UNCHANGED <<max_concurrent_pipelines, running_pipelines, tasks,
                   last_call, last_done>>

(***************************************************************************)
(* PipelineCoordinator.can_start_pipeline called on its own.               *)
(***************************************************************************)
can_start_pipeline_call(project_id) ==
    /\ last_call' = Call("can_start_pipeline", project_id,
                         can_start_pipeline(project_id), FALSE, FALSE)
    /\ UNCHANGED <<pipeVars, scanVars, waitVars>>
    /\ UNCHANGED <<max_concurrent_pipelines, running_pipelines, is_chat_active,
                   active_notification_id, tasks, last_done>>

(***************************************************************************)
(* PipelineCoordinator.get_pipeline_status                                 *)
(***************************************************************************)
get_chat_status ==
    [is_active |-> is_chat_active, active_notification_id |-> active_notification_id]

get_pipeline_status_IgnoresChat ==
    LET chat_status == get_chat_status
    IN  [running_count |-> Cardinality(running_pipelines),
         max_concurrent |-> max_concurrent_pipelines,
         running_project_ids |-> running_pipelines,
         capacity_available |->
             Cardinality(running_pipelines) < max_concurrent_pipelines,
         chat_active |-> chat_status.is_active,
         active_chat_notification_id |-> chat_status.active_notification_id,
         can_start_new_pipeline |->
             Cardinality(running_pipelines) < max_concurrent_pipelines]

get_pipeline_status ==
    LET chat_status == get_chat_status
    IN  [running_count |-> Cardinality(running_pipelines),
         max_concurrent |-> max_concurrent_pipelines,
         running_project_ids |-> running_pipelines,
         capacity_available |->
             Cardinality(running_pipelines) < max_concurrent_pipelines,
         chat_active |-> chat_status.is_active,
         active_chat_notification_id |-> chat_status.active_notification_id,
         can_start_new_pipeline |->
             /\ Cardinality(running_pipelines) < max_concurrent_pipelines
             /\ ~chat_status.is_active]

\* The call: the returned dictionary is computed, nothing is assigned.
get_pipeline_status_call ==
    /\ last_call' = [op |-> "get_pipeline_status",
                     result |-> get_pipeline_status.can_start_new_pipeline,
                     scheduled |-> FALSE, added |-> FALSE,
                     chat |-> get_pipeline_status.chat_active,
                     was_running |-> FALSE,
                     at_capacity |-> ~get_pipeline_status.capacity_available]
    /\ UNCHANGED <<pipeVars, scanVars, waitVars>>
    /\ UNCHANGED <<max_concurrent_pipelines, running_pipelines, is_chat_active,
                   active_notification_id, tasks, last_done>>

(***************************************************************************)
(* PipelineCoordinator.execute_if_available: no await inside, so one step. *)
(***************************************************************************)
execute_if_available_call(project_id) ==
    /\ Len(tasks) < MaxTasks
    /\ IF ~can_start_pipeline(project_id)
         THEN /\ UNCHANGED <<running_pipelines, tasks>>
              /\ last_call' = Call("execute_if_available", project_id, FALSE,
                                   tasks' # tasks, running_pipelines' # running_pipelines)
         ELSE /\ running_pipelines' = running_pipelines \cup {project_id}
              /\ tasks' = Append(tasks, NewTask(project_id))
              /\ last_call' = Call("execute_if_available", project_id, TRUE,
                                   tasks' # tasks, running_pipelines' # running_pipelines)
    /\ UNCHANGED <<max_concurrent_pipelines, is_chat_active,
                   active_notification_id, last_done>>

execute_if_available(project_id) ==
    /\ execute_if_available_call(project_id)
    /\ UNCHANGED <<pipeVars, scanVars, waitVars>>

(***************************************************************************)
(* PipelineCoordinator._execute_pipeline_with_cleanup, one step per        *)
(* stretch of code between two awaits.                                     *)
(***************************************************************************)
PipelineOutcomes == {"output", "nothing", "pipeline_raised"}
NotifyOutcomes == {"notified", "notify_raised"}

\* finally: self.running_pipelines.discard(project_id)
FinallyDiscard_SkipOnError(running, project_id, outcome) ==
    IF outcome \in {"pipeline_raised", "notify_raised"}
      THEN running
      ELSE running \ {project_id}

FinallyDiscard(running, project_id, outcome) ==
    running \ {project_id}

\* The event loop starts the task: it runs up to `await code_review_pipeline`.
task_start(t) ==
    /\ t \in DOMAIN tasks
    /\ tasks[t].pc = "scheduled"
    /\ tasks' = [tasks EXCEPT ![t].pc = "pipeline"]
    /\ UNCHANGED <<pipeVars, scanVars, waitVars>>
    /\ UNCHANGED <<max_concurrent_pipelines, running_pipelines, is_chat_active,
                   active_notification_id, last_call, last_done>>

\* code_review_pipeline returns a response, returns None, or raises.
pipeline_returns(t, outcome) ==
    /\ t \in DOMAIN tasks
    /\ tasks[t].pc = "pipeline"
    /\ IF outcome = "output"
         THEN \* if pipeline_response: await notify_user(...)
              /\ tasks' = [tasks EXCEPT ![t].pc = "notify"]
              /\ UNCHANGED <<running_pipelines, last_done>>
         ELSE \* else-branch or except-branch, then finally
              /\ tasks' = RemoveAt(tasks, t)
              /\ last_done' = outcome
              /\ running_pipelines' =
                     FinallyDiscard(running_pipelines, tasks[t].project_id, outcome)
    /\ UNCHANGED <<pipeVars, scanVars, waitVars>>
    /\ UNCHANGED <<max_concurrent_pipelines, is_chat_active,
                   active_notification_id, last_call>>

\* notify_user returns or raises; then finally.
notify_returns(t, outcome) ==
    /\ t \in DOMAIN tasks
    /\ tasks[t].pc = "notify"
    /\ tasks' = RemoveAt(tasks, t)
    /\ last_done' = outcome
    /\ running_pipelines' =
           FinallyDiscard(running_pipelines, tasks[t].project_id, outcome)
    /\ UNCHANGED <<pipeVars, scanVars, waitVars>>
    /\ UNCHANGED <<max_concurrent_pipelines, is_chat_active,
                   active_notification_id, last_call>>

\* A step of the task of project p.
TaskStepOf(p) ==
    \E t \in 1..MaxTasks :
        /\ t \in DOMAIN tasks
        /\ tasks[t].project_id = p
        /\ \/ task_start(t)
           \/ \E o \in PipelineOutcomes : pipeline_returns(t, o)
           \/ \E o \in NotifyOutcomes : notify_returns(t, o)

NextCoord ==
    \/ \E n \in NotificationIds : set_chat_active(n)
    \/ set_chat_inactive
    \/ \E p \in Projects : can_start_pipeline_call(p)
    \/ \E p \in Projects : execute_if_available(p)
    \/ \E t \in 1..MaxTasks : task_start(t)
    \/ \E t \in 1..MaxTasks, o \in PipelineOutcomes : pipeline_returns(t, o)
    \/ \E t \in 1..MaxTasks, o \in NotifyOutcomes : notify_returns(t, o)

Spec == InitCoord /\ [][NextCoord]_vars

\* The event loop runs every scheduled task, and every awaited call ends.
FairSpec == Spec /\ \A p \in Projects : WF_vars(TaskStepOf(p))

\* The coordinator with a caller that reads its status at any moment.
NextStatus ==
    \/ \E n \in NotificationIds : set_chat_active(n)
    \/ set_chat_inactive
    \/ \E p \in Projects : can_start_pipeline_call(p)
    \/ get_pipeline_status_call
    \/ \E p \in Projects : execute_if_available(p)
    \/ \E t \in 1..MaxTasks : task_start(t)
    \/ \E t \in 1..MaxTasks, o \in PipelineOutcomes : pipeline_returns(t, o)
    \/ \E t \in 1..MaxTasks, o \in NotifyOutcomes : notify_returns(t, o)

StatusSpec == InitCoord /\ [][NextStatus]_vars

(***************************************************************************)
(* PipelineCoordinator.wait_for_completion, one step per stretch of code   *)
(* between two awaits, while runs are admitted and tasks go on.            *)
(***************************************************************************)
MaxTimeout == 2
MaxOversleep == 2

\* timeout_seconds: None, or a number of sleeps.
Timeouts == {None} \cup {Some(n) : n \in 0..MaxTimeout}

\* if timeout_seconds is not None: ... if elapsed >= timeout_seconds
timed_out_Never(elapsed, timeout) == FALSE

timed_out(elapsed, timeout) ==
    timeout # None /\ elapsed >= Get(timeout)

\* The time elapsed is compared only with the timeout: it is counted up to it.
Elapse(elapsed, d, timeout) ==
    IF timeout = None THEN 0 ELSE Min(elapsed + d, Get(timeout))

\* The body of `while self.running_pipelines` from its test to the sleep.
wait_loop(elapsed, timeout) ==
    IF running_pipelines = {}
      THEN [pc |-> "returned", timeout |-> timeout, elapsed |-> elapsed,
            result |-> TRUE]
    ELSE IF timed_out(elapsed, timeout)
      THEN [pc |-> "returned", timeout |-> timeout, elapsed |-> elapsed,
            result |-> FALSE]
    ELSE [pc |-> "sleeping", timeout |-> timeout, elapsed |-> elapsed,
          result |-> FALSE]

\* The call, up to its return or its first sleep.
wait_for_completion(timeout) ==
    /\ waiter.pc = "idle"
    /\ waiter' = wait_loop(0, timeout)
    /\ UNCHANGED <<coordVars, pipeVars, scanVars>>

\* The sleep ends after d tenths of a second; the loop tests again.
wait_wakes(d) ==
    /\ waiter.pc = "sleeping"
    /\ waiter' = wait_loop(Elapse(waiter.elapsed, d, waiter.timeout), waiter.timeout)
    /\ UNCHANGED <<coordVars, pipeVars, scanVars>>

wait_step == \E d \in 1..MaxOversleep : wait_wakes(d)

NextWait ==
    \/ \E timeout \in Timeouts : wait_for_completion(timeout)
    \/ \E d \in 1..MaxOversleep : wait_wakes(d)
    \/ \E p \in Projects : execute_if_available(p)
    \/ \E t \in 1..MaxTasks : task_start(t)
    \/ \E t \in 1..MaxTasks, o \in PipelineOutcomes : pipeline_returns(t, o)
    \/ \E t \in 1..MaxTasks, o \in NotifyOutcomes : notify_returns(t, o)

WaitSpec == InitCoord /\ [][NextWait]_vars

\* The event loop wakes the sleeping call.
FairWaitSpec == WaitSpec /\ WF_vars(wait_step)

(***************************************************************************)
(* Properties of the coordinator.                                          *)
(***************************************************************************)
TaskProjects == {tasks[t].project_id : t \in DOMAIN tasks}

OneTaskPerProject ==
    \A t1, t2 \in DOMAIN tasks :
        tasks[t1].project_id = tasks[t2].project_id => t1 = t2

\* A task ends in this step: it leaves `tasks`, whatever its outcome.
TaskEnds(t) ==
    /\ t \in DOMAIN tasks
    /\ tasks' = RemoveAt(tasks, t)
    /\ last_done' \in (PipelineOutcomes \cup NotifyOutcomes) \ {"output"}

\* C1: every admitted run's project_id is removed from the in-flight set when
\* its task ends, whatever the outcome (output, nothing, the pipeline raised,
\* the notification delivery raised), exactly once per admission (the in-flight
\* set is at all times the set of projects of the tasks that have not ended,
\* one task each), and every in-flight project_id is eventually removed.
C1_CleanupGuaranteed ==
    /\ [](running_pipelines = TaskProjects /\ OneTaskPerProject)
    /\ [][Len(tasks') < Len(tasks) =>
            \E t \in DOMAIN tasks :
                /\ TaskEnds(t)
                /\ tasks[t].project_id \in running_pipelines
                /\ running_pipelines' = running_pipelines \ {tasks[t].project_id}]_vars
    /\ \A p \in Projects : (p \in running_pipelines) ~> (p \notin running_pipelines)

\* C1 witness: a task whose pipeline raised has ended and nothing is in flight.
C1_Witness ==
    /\ last_done = "pipeline_raised"
    /\ last_call.op = "execute_if_available"
    /\ last_call.result
    /\ running_pipelines = {}
    /\ tasks = <<>>

\* C2: the in-flight set never has more than max_concurrent_pipelines entries.
C2_CapacityBound ==
    Cardinality(running_pipelines) <= max_concurrent_pipelines

\* C2 witness: with N = 2, two runs are in flight and a third project was
\* rejected for capacity alone.
C2_Witness ==
    /\ max_concurrent_pipelines = 2
    /\ Cardinality(running_pipelines) = 2
    /\ last_call.op = "execute_if_available"
    /\ last_call.at_capacity /\ ~last_call.was_running /\ ~last_call.chat
    /\ ~last_call.result

\* C3: single-flight: no two unfinished tasks are for the same project_id, and
\* execute_if_available for a project_id that is in flight returns False and
\* schedules no task.
C3_SingleFlight ==
    /\ OneTaskPerProject
    /\ (last_call.op = "execute_if_available" /\ last_call.was_running) =>
           (~last_call.result /\ ~last_call.scheduled)

\* C3 witness: the second call for a project in flight was rejected although
\* capacity was available and chat inactive.
C3_Witness ==
    /\ last_call.op = "execute_if_available"
    /\ last_call.was_running /\ ~last_call.at_capacity /\ ~last_call.chat
    /\ ~last_call.result
    /\ Cardinality(running_pipelines) = 1

\* C4: while chat is active can_start_pipeline is False for every project, and
\* execute_if_available returns False, adds nothing to the in-flight set and
\* schedules no task.
C4_ChatMutualExclusion ==
    /\ is_chat_active => \A p \in Projects : ~can_start_pipeline(p)
    /\ (last_call.op = "can_start_pipeline" /\ last_call.chat) => ~last_call.result
    /\ (last_call.op = "execute_if_available" /\ last_call.chat) =>
           (~last_call.result /\ ~last_call.added /\ ~last_call.scheduled)

\* C4 witness: a call made while chat was active, with nothing in flight, was
\* rejected.
C4_Witness ==
    /\ last_call.op = "execute_if_available"
    /\ last_call.chat /\ ~last_call.was_running /\ ~last_call.at_capacity
    /\ ~last_call.result
    /\ is_chat_active

(***************************************************************************)
(* CodeReviewPipeline.execute, one step per loop iteration.                *)
(***************************************************************************)
\* The coordinator variables while one pipeline run is studied.
CoordIdle ==
    /\ max_concurrent_pipelines = 1
    /\ running_pipelines = {}
    /\ is_chat_active = FALSE
    /\ active_notification_id = NoneValue
    /\ tasks = <<>>
    /\ last_call = NoCall
    /\ last_done = "none"

\* execute is called with a list of changes.
InitPipe ==
    /\ changes \in ChangeLists
    /\ run_project_id = 1
    /\ pstatus = "NOT_STARTED"
    /\ stage = 0
    /\ context = None
    /\ notification = ""
    /\ solution = ""
    /\ output = None
    /\ last_event = NoEvent
    /\ last_invoked = 0
    /\ cancel_at = 0
    /\ CoordIdle
    /\ ScanIdle
    /\ WaitIdle

PipelineOutput_DropsNotification(ctx, notif, sol) ==
    [notification |-> "", warning |-> Get(ctx.current_warning), solution |-> sol,
     old_version |-> ctx.old_version, new_version |-> ctx.new_version,
     file_path |-> ctx.file_path, project_id |-> ctx.project_id]

PipelineOutput(ctx, notif, sol) ==
    [notification |-> notif, warning |-> Get(ctx.current_warning), solution |-> sol,
     old_version |-> ctx.old_version, new_version |-> ctx.new_version,
     file_path |-> ctx.file_path, project_id |-> ctx.project_id]

\* execute, lines 36-44: create and validate the context.
execute_start ==
    /\ pstatus = "NOT_STARTED"
    /\ \E w \in InitialWarnings :
          context' = create_context_from_changes(changes, run_project_id, w)
    /\ IF context' = None
         THEN pstatus' = "REJECTED" /\ stage' = stage
         ELSE pstatus' = "RUNNING" /\ stage' = 1
    /\ notification' = ""
    /\ solution' = ""
    /\ UNCHANGED <<coordVars, scanVars, waitVars, changes, run_project_id,
                   output, last_event, last_invoked, cancel_at>>

Running(k) == pstatus = "RUNNING" /\ stage = k /\ k \in 1..NumAgents
Ctx == Get(context)

stage_skipped_Cancels ==
    /\ Running(stage)
    /\ pstatus' = "CANCELLED"
    /\ last_event' = Event(stage, "skip")
    /\ UNCHANGED <<coordVars, scanVars, waitVars, changes, run_project_id, stage,
                   context, notification, solution, output, last_invoked,
                   cancel_at>>

\* lines 47-50: should_process is false, the loop goes to the next agent.
\* BaseAgent.should_process returns True and is meant to be overridden; its
\* value is an input of the step.
stage_skipped ==
    /\ Running(stage)
    /\ stage' = stage + 1
    /\ last_event' = Event(stage, "skip")
    /\ UNCHANGED <<coordVars, scanVars, waitVars, changes, run_project_id, pstatus, context,
                   notification, solution, output, last_invoked, cancel_at>>

\* lines 78-84: what the loop does once analyze has raised.  The agents
\* change the warning only inside their own try blocks, so an exception that
\* leaves analyze leaves the warning as it was.
AfterException_Abort(k) == [pstatus |-> "FAILED", stage |-> k]

AfterException(k) == [pstatus |-> "RUNNING", stage |-> k + 1]

stage_raises ==
    /\ Running(stage)
    /\ pstatus' = AfterException(stage).pstatus
    /\ stage' = AfterException(stage).stage
    /\ last_event' = Event(stage, "raise")
    /\ last_invoked' = stage
    /\ UNCHANGED <<coordVars, scanVars, waitVars, changes, run_project_id,
                   context, notification,
                   solution, output, cancel_at>>

\* line 68: if result == PipelineResult.CANCEL
IsCancel_Never(result) == FALSE

IsCancel(result) == result = "CANCEL"

\* lines 64-76: a standard agent has returned <<result, updated_warning>>.
standard_agent_returns(k, r) ==
    /\ last_invoked' = k
    /\ last_event' = Event(k, r[1])
    /\ cancel_at' = IF r[1] = "CANCEL" /\ cancel_at = 0 THEN k ELSE cancel_at
    /\ IF IsCancel(r[1])
         THEN /\ pstatus' = "CANCELLED"
              /\ UNCHANGED <<stage, context>>
         ELSE /\ context' = Some([Ctx EXCEPT !.current_warning = r[2]])
              /\ stage' = k + 1
              /\ UNCHANGED pstatus
    /\ UNCHANGED <<coordVars, scanVars, waitVars, changes, run_project_id,
                   notification, solution, output>>

run_InitialAssessment ==
    /\ Running(stage) /\ Agents[stage] = "InitialAssessment"
    /\ \E response \in InitialResponses :
          standard_agent_returns(stage, InitialAssessment_analyze(Ctx, response))

run_NotificationAssessment ==
    /\ Running(stage) /\ Agents[stage] = "NotificationAssessment"
    /\ \E run \in DismissalRuns :
          standard_agent_returns(stage, NotificationAssessment_analyze(Ctx, run))

run_ContextAwareness ==
    /\ Running(stage) /\ Agents[stage] = "ContextAwareness"
    /\ \E run \in RagRuns, analysis \in FinalAnalyses :
          standard_agent_returns(stage, ContextAwareness_analyze(Ctx, run, analysis))

run_SyntaxValidation ==
    /\ Running(stage) /\ Agents[stage] = "SyntaxValidation"
    /\ \E description_fails \in BOOLEAN, adjustment \in SeverityAdjustments :
          standard_agent_returns(stage,
              SyntaxValidation_analyze(Ctx, description_fails, adjustment))

\* lines 57-60: result, notification = agent.analyze(context).  result is
\* not read again; NotificationWriter.analyze itself returns CONTINUE only,
\* and the step takes any PipelineResult to show what execute does with it.
run_NotificationWriter ==
    /\ Running(stage) /\ Agents[stage] = "NotificationWriter"
    /\ \E result \in PipelineResult, text \in NotificationWriter_texts(Ctx) :
          /\ notification' = text
          /\ last_event' = Event(stage, result)
          /\ cancel_at' = IF result = "CANCEL" /\ cancel_at = 0 THEN stage ELSE cancel_at
    /\ last_invoked' = stage
    /\ stage' = stage + 1
    /\ UNCHANGED <<coordVars, scanVars, waitVars, changes, run_project_id,
                   pstatus, context, solution, output>>

\* lines 61-63: result, solution = agent.analyze(context).  As above for
\* result.
run_CodeWriter ==
    /\ Running(stage) /\ Agents[stage] = "CodeWriter"
    /\ \E result \in PipelineResult, text \in CodeWriter_texts(Ctx) :
          /\ solution' = text
          /\ last_event' = Event(stage, result)
          /\ cancel_at' = IF result = "CANCEL" /\ cancel_at = 0 THEN stage ELSE cancel_at
    /\ last_invoked' = stage
    /\ stage' = stage + 1
    /\ UNCHANGED <<coordVars, scanVars, waitVars, changes, run_project_id,
                   pstatus, context, notification, output>>

\* lines 86-103: the loop is over.
execute_finish ==
    /\ pstatus = "RUNNING"
    /\ stage = NumAgents + 1
    /\ IF Truthy(Ctx.current_warning)
         THEN /\ output' = Some(PipelineOutput(Ctx, notification, solution))
              /\ pstatus' = "COMPLETED"
         ELSE /\ output' = None
              /\ pstatus' = "NO_OUTPUT"
    /\ UNCHANGED <<coordVars, scanVars, waitVars, changes, run_project_id,
                   stage, context, notification,
                   solution, last_event, last_invoked, cancel_at>>

NextPipe ==
    \/ execute_start
    \/ stage_skipped
    \/ stage_raises
    \/ run_InitialAssessment
    \/ run_NotificationAssessment
    \/ run_ContextAwareness
    \/ run_SyntaxValidation
    \/ run_NotificationWriter
    \/ run_CodeWriter
    \/ execute_finish

PipelineSpec == InitPipe /\ [][NextPipe]_vars

(***************************************************************************)
(* ChangeScanner._scan_loop for one project, with what happens in the      *)
(* project directory between two scans.                                    *)
(***************************************************************************)
ScanProject == 1

InitScan ==
    /\ now = 0
    /\ disk \in [Paths -> UNION {DiskEntries(p, 0) : p \in Paths}]
    /\ \A p \in Paths : disk[p] \in DiskEntries(p, 0)
    /\ db \in [Paths -> UNION {DbRows(p) : p \in Paths}]
    /\ \A p \in Paths : db[p] \in DbRows(p)
    /\ last_scan_timestamp = None
    /\ last_tick = NoTick
    /\ CoordIdle
    /\ PipeIdle
    /\ WaitIdle

\* A file is written (created or changed) in the directory.
write_file(path, content) ==
    /\ disk[path].kind \in {"absent", "file", "unreadable"}
    /\ disk[path] # DiskFile(content, now)
    /\ disk' = [disk EXCEPT ![path] = DiskFile(content, now)]
    /\ UNCHANGED <<coordVars, pipeVars, waitVars, db, last_scan_timestamp, now,
                   last_tick>>

\* A file is written that cannot be read as text.
write_unreadable(path) ==
    /\ MayBeUnreadable(path)
    /\ disk[path].kind \in {"absent", "file"}
    /\ disk' = [disk EXCEPT ![path] = DiskUnreadable(now)]
    /\ UNCHANGED <<coordVars, pipeVars, waitVars, db, last_scan_timestamp, now,
                   last_tick>>

\* A directory is created, or its modification time changes.
make_dir(path) ==
    /\ MayBeDir(path)
    /\ disk[path].kind \in {"absent", "dir"}
    /\ disk[path] # DiskDir(now)
    /\ disk' = [disk EXCEPT ![path] = DiskDir(now)]
    /\ UNCHANGED <<coordVars, pipeVars, waitVars, db, last_scan_timestamp, now,
                   last_tick>>

\* A file or a directory is removed.
remove_path(path) ==
    /\ disk[path].kind # "absent"
    /\ disk' = [disk EXCEPT ![path] = Absent]
    /\ UNCHANGED <<coordVars, pipeVars, waitVars, db, last_scan_timestamp, now,
                   last_tick>>

\* _scan_loop, lines 84-100: what an iteration does with the changes it
\* found, in order.  write_ok says whether update_database_with_changes
\* returned (True) or raised (False, caught at 91).
scan_steps_NoOfferOnFailure(chs, write_ok) ==
    IF chs = <<>> THEN <<>>
    ELSE IF write_ok THEN <<"write", "offer">>
    ELSE <<"write_failed">>

scan_steps(chs, write_ok) ==
    IF chs = <<>> THEN <<>>
    ELSE <<IF write_ok THEN "write" ELSE "write_failed", "offer">>

HasStep(steps, step) == \E i \in 1..Len(steps) : steps[i] = step

\* One iteration of the loop of _scan_loop, lines 78-114: the scan, the write
\* to the table, the offer to the coordinator, the new timestamp, the sleep.
scan_loop_iteration ==
    /\ now < MaxTime
    /\ LET current_scan_time == now
           chs == get_changes(db, disk, last_scan_timestamp)
       IN  /\ \E write_ok \in (IF chs = <<>> THEN {FALSE} ELSE BOOLEAN) :
                LET steps == scan_steps(chs, write_ok)
                IN  /\ db' = IF HasStep(steps, "write") THEN post_changes(db, chs)
                             ELSE db
                    /\ IF HasStep(steps, "offer")
                         THEN execute_if_available_call(ScanProject)
                         ELSE UNCHANGED coordVars
                    /\ last_tick' = [T |-> last_scan_timestamp, changes |-> chs,
                                     steps |-> steps,
                                     written |-> HasStep(steps, "write"),
                                     offered |-> HasStep(steps, "offer"),
                                     started |-> /\ HasStep(steps, "offer")
                                                 /\ can_start_pipeline(ScanProject)]
           /\ last_scan_timestamp' = Some(current_scan_time)
    /\ now' = now + 1
    /\ UNCHANGED <<pipeVars, waitVars, disk>>

\* An iteration whose scan raises (the project is no longer in the
\* database, the directory cannot be listed): line 107 logs, the timestamp
\* is not assigned, the loop sleeps and goes on.
scan_loop_iteration_raises_AdvancesTimestamp ==
    /\ now < MaxTime
    /\ now' = now + 1
    /\ last_scan_timestamp' = Some(now)
    /\ UNCHANGED <<coordVars, pipeVars, waitVars, disk, db, last_tick>>

scan_loop_iteration_raises ==
    /\ now < MaxTime
    /\ now' = now + 1
    /\ UNCHANGED <<coordVars, pipeVars, waitVars, disk, db, last_scan_timestamp,
                   last_tick>>

\* The ways a task can end are those of Spec; for the scanner a task that
\* was started runs to its end and frees its project.
NextScan ==
    \/ \E p \in Paths : \E c \in FileContents(p) : write_file(p, c)
    \/ \E p \in Paths : write_unreadable(p)
    \/ \E p \in Paths : make_dir(p)
    \/ \E p \in Paths : remove_path(p)
    \/ scan_loop_iteration
    \/ \E n \in NotificationIds : set_chat_active(n)
    \/ set_chat_inactive
    \/ \E t \in 1..MaxTasks : task_start(t)
    \/ \E t \in 1..MaxTasks : pipeline_returns(t, "nothing")

ScanSpec == InitScan /\ [][NextScan]_vars

\* The loop with iterations that raise; the chat flag plays no part in what
\* a scan reports, so it stays as it is here.
NextScanError ==
    \/ \E p \in Paths : \E c \in FileContents(p) : write_file(p, c)
    \/ \E p \in Paths : write_unreadable(p)
    \/ \E p \in Paths : make_dir(p)
    \/ \E p \in Paths : remove_path(p)
    \/ scan_loop_iteration
    \/ scan_loop_iteration_raises
    \/ \E t \in 1..MaxTasks : task_start(t)
    \/ \E t \in 1..MaxTasks : pipeline_returns(t, "nothing")

ScanErrorSpec == InitScan /\ [][NextScanError]_vars

(***************************************************************************)
(* Properties of a pipeline run.                                           *)
(***************************************************************************)
Writers == {"NotificationWriter", "CodeWriter"}

\* The warning of the run; an absent context or warning has empty lists.
WarningOf(c) ==
    IF c = None THEN EmptyWarning
    ELSE IF Get(c).current_warning = None THEN EmptyWarning
    ELSE Get(Get(c).current_warning)

Populated(c) ==
    /\ c # None
    /\ Get(c).current_warning # None
    /\ Get(Get(c).current_warning).title # ""

C6_OutputIffPopulated ==
    pstatus \in {"COMPLETED", "NO_OUTPUT"} => (output # None <=> Populated(context))

\* C7: a step in which analyze raises leaves current_warning, notification
\* and solution as they were, keeps the run going with the next stage, and
\* the stages of a running pipeline are taken one after the other.
C7_ExceptionIsolated ==
    /\ [][last_event' = Event(stage, "raise") =>
            /\ context' = context
            /\ notification' = notification
            /\ solution' = solution
            /\ output' = output
            /\ pstatus' = "RUNNING"
            /\ stage' = stage + 1]_vars
    /\ [][(pstatus = "RUNNING" /\ pstatus' = "RUNNING") => stage' = stage + 1]_vars
    /\ [](pstatus \in {"NOT_STARTED", "REJECTED", "RUNNING", "CANCELLED",
                       "COMPLETED", "NO_OUTPUT"})

C7_Witness ==
    /\ last_event = Event(3, "raise")
    /\ pstatus = "RUNNING"
    /\ stage = 4
    /\ Populated(context)

\* C8 as stated: the run is rejected, with no stage invoked and no output,
\* exactly when old_version and new_version are both empty or a new file has
\* an empty new_version; every other change reaches the stage loop.
C8_ValidationEmptyOnly ==
    (pstatus # "NOT_STARTED" /\ changes # <<>>) =>
        LET c == changes[1]
        IN  IF \/ (c.old_version = <<>> /\ c.new_version = <<>>)
               \/ (c.is_new_file /\ c.new_version = <<>>)
              THEN pstatus = "REJECTED" /\ last_invoked = 0 /\ output = None
              ELSE pstatus # "REJECTED"

\* C8, amended: the run is rejected, with no stage invoked and no output,
\* exactly when old_version and new_version are both empty or a new file has
\* a new_version that is empty or only whitespace; every other change reaches
\* the stage loop.
C8_Validation ==
    (pstatus # "NOT_STARTED" /\ changes # <<>>) =>
        LET c == changes[1]
        IN  IF \/ (c.old_version = <<>> /\ c.new_version = <<>>)
               \/ (c.is_new_file /\ strip(c.new_version) = <<>>)
              THEN /\ pstatus = "REJECTED"
                   /\ last_invoked = 0
                   /\ last_event = NoEvent
                   /\ output = None
              ELSE pstatus # "REJECTED"

C8_Witness ==
    /\ pstatus = "REJECTED"
    /\ changes # <<>>
    /\ changes[1].is_new_file
    /\ changes[1].new_version = <<" ">>

\* C9: no step of a run makes description, suggestions, affected_files or
\* metadata of current_warning shorter.
C9_MonotonicAccumulation ==
    [][/\ Len(WarningOf(context').description) >= Len(WarningOf(context).description)
       /\ Len(WarningOf(context').suggestions) >= Len(WarningOf(context).suggestions)
       /\ Len(WarningOf(context').affected_files) >= Len(WarningOf(context).affected_files)
       /\ Len(WarningOf(context').metadata) >= Len(WarningOf(context).metadata)]_vars

C9_Witness ==
    /\ last_event = Event(4, "CONTINUE")
    /\ Len(WarningOf(context).description) = 3
    /\ Len(WarningOf(context).suggestions) = 3
    /\ Len(WarningOf(context).metadata) = 4

\* C10: once the title of current_warning is non-empty, no step changes it,
\* and the PipelineOutput carries it.
C10_TitleImmutable ==
    /\ [][WarningOf(context).title # "" =>
            WarningOf(context').title = WarningOf(context).title]_vars
    /\ [](output # None => Get(output).warning.title = WarningOf(context).title)

C10_Witness ==
    /\ output # None
    /\ Get(output).warning.title = "T"
    /\ Len(Get(output).warning.metadata) = 4

\* C11 as stated: after every stage, whatever confidence or
\* confidence_impact the LLM returned, the confidence of current_warning is
\* between 0 and 1 (0 and 100 hundredths).
C11_ConfidenceBounds ==
    /\ WarningOf(context).confidence >= 0
    /\ WarningOf(context).confidence <= 100

\* C19: can_start_pipeline(project_id) is True exactly when chat is not
\* active, project_id is not in the in-flight set and the in-flight set has
\* fewer than max_concurrent_pipelines entries, and a call of it changes
\* neither the in-flight set nor the chat flag.
C19_CanStartExactly ==
    /\ [](\A p \in Projects :
            can_start_pipeline(p) <=>
                /\ ~is_chat_active
                /\ p \notin running_pipelines
                /\ Cardinality(running_pipelines) < max_concurrent_pipelines)
    /\ [](last_call.op = "can_start_pipeline" =>
            (last_call.result <=>
                (~last_call.chat /\ ~last_call.was_running /\ ~last_call.at_capacity)))
    /\ [][\A p \in Projects : can_start_pipeline_call(p) =>
            /\ running_pipelines' = running_pipelines
            /\ is_chat_active' = is_chat_active
            /\ tasks' = tasks]_vars

\* C19 witness: a call returned False for capacity alone, and the state the
\* call was made in is still there.
C19_Witness ==
    /\ last_call.op = "can_start_pipeline"
    /\ ~last_call.result
    /\ last_call.at_capacity /\ ~last_call.chat /\ ~last_call.was_running
    /\ Cardinality(running_pipelines) = max_concurrent_pipelines
    /\ max_concurrent_pipelines = 2

\* C20: execute_if_available returns without waiting for the pipeline: when
\* it returns True, project_id is in the in-flight set and a task for it has
\* been scheduled and has not started; when it returns False, the in-flight
\* set and the tasks are as they were.
C20_ExecuteIfAvailableFrame ==
    [][\A p \in Projects : execute_if_available(p) =>
          /\ last_call'.op = "execute_if_available"
          /\ last_call'.result = can_start_pipeline(p)
          /\ last_call'.result =>
                /\ p \notin running_pipelines
                /\ running_pipelines' = running_pipelines \cup {p}
                /\ tasks' = Append(tasks, [project_id |-> p, pc |-> "scheduled"])
          /\ ~last_call'.result =>
                /\ running_pipelines' = running_pipelines
                /\ tasks' = tasks]_vars

\* C20 witness: a call has returned True and its task has not started.
C20_Witness ==
    /\ last_call.op = "execute_if_available"
    /\ last_call.result /\ last_call.scheduled /\ last_call.added
    /\ \E t \in DOMAIN tasks : tasks[t].pc = "scheduled"
    /\ Cardinality(running_pipelines) = 2

(***************************************************************************)
(* Properties of the scanner.                                              *)
(***************************************************************************)
Reported(chs, path) == \E i \in 1..Len(chs) : chs[i].path = path

ChangesOf(chs, path) == {i \in 1..Len(chs) : chs[i].path = path}

\* What a scan of the current directory against the current table returns.
NextChanges == get_changes(db, disk, last_scan_timestamp)

IsFileOnDisk(path) == disk[path].kind \in {"file", "unreadable"}

\* C12: a scan without a previous timestamp returns the empty list, whatever
\* the directory and the table hold (new, modified and deleted paths
\* included), and so does the first iteration of the scan loop.
C12_FirstScanSuppressed ==
    /\ get_changes(db, disk, None) = <<>>
    /\ last_tick.T = None => last_tick.changes = <<>>

C12_Witness ==
    /\ last_scan_timestamp # None
    /\ last_tick.T = None
    /\ last_tick.changes = <<>>
    /\ disk["a"].kind = "file" /\ ~db["a"].present
    /\ disk["b"].kind = "absent" /\ db["b"].present

\* C13: in a scan with a timestamp T, a file that is in the table is in the
\* result exactly when its modification time is strictly greater than T.
C13_TimestampFiltering ==
    last_scan_timestamp # None =>
        \A p \in Paths :
            (IsFileOnDisk(p) /\ db[p].present) =>
                (Reported(NextChanges, p) <=> disk[p].mtime > Get(last_scan_timestamp))

C13_Witness ==
    /\ last_tick.T # None
    /\ disk["a"].kind = "file" /\ db["a"].present
    /\ disk["a"].mtime = Get(last_tick.T)
    /\ ~Reported(last_tick.changes, "a")
    /\ disk["b"].kind = "file" /\ disk["b"].mtime > Get(last_tick.T)
    /\ \E i \in ChangesOf(last_tick.changes, "b") :
            /\ ~last_tick.changes[i].is_new_file
            /\ last_tick.changes[i].new_version = disk["b"].content

\* C14: in a scan with a timestamp, a path that is in the table and not in
\* the directory gives exactly one change for that path, with an empty
\* new_version, the stored content as old_version and is_new_file false; once
\* the changes of that scan are written to the table, a scan of the same
\* directory does not report the path.
C14_DeletionDetection ==
    [][scan_loop_iteration =>
        \A p \in Paths :
            (last_scan_timestamp # None /\ db[p].present /\ disk[p].kind = "absent") =>
                /\ Cardinality(ChangesOf(last_tick'.changes, p)) = 1
                /\ \A i \in ChangesOf(last_tick'.changes, p) :
                        /\ last_tick'.changes[i].new_version = <<>>
                        /\ last_tick'.changes[i].old_version = db[p].content
                        /\ ~last_tick'.changes[i].is_new_file
                /\ last_tick'.written =>
                        ~Reported(get_changes(db', disk', last_scan_timestamp'), p)
    ]_vars

C14_Witness ==
    /\ last_tick.T # None
    /\ last_tick.written
    /\ \E i \in 1..Len(last_tick.changes) :
            /\ last_tick.changes[i].new_version = <<>>
            /\ last_tick.changes[i].old_version # <<>>
            /\ ~last_tick.changes[i].is_new_file
            /\ disk[last_tick.changes[i].path].kind = "absent"
            /\ ~db[last_tick.changes[i].path].present
            /\ ~Reported(NextChanges, last_tick.changes[i].path)

\* C15: a file whose content cannot be read gives no change in any scan.
C15_UnreadableSkipped ==
    \A p \in Paths : disk[p].kind = "unreadable" => ~Reported(NextChanges, p)

\* C16: every change of a scan with is_new_file true has a non-empty
\* new_version or is a directory.
C16_NewFileHasContent ==
    \A i \in 1..Len(NextChanges) :
        NextChanges[i].is_new_file =>
            (NextChanges[i].new_version # <<>> \/ NextChanges[i].is_dir)

\* C17: a directory reported as new by a scan whose changes are written to
\* the table is not reported by the next scan of the same directory, and a
\* directory that is in the table is never reported.
C17_DirectoryReportedOnce ==
    [][scan_loop_iteration =>
        /\ \A p \in Paths :
              (disk[p].kind = "dir" /\ db[p].present) =>
                    ~Reported(last_tick'.changes, p)
        /\ \A i \in 1..Len(last_tick'.changes) :
              (last_tick'.changes[i].is_dir /\ last_tick'.changes[i].is_new_file
                    /\ last_tick'.written) =>
                 ~Reported(get_changes(db', disk', last_scan_timestamp'),
                           last_tick'.changes[i].path)
    ]_vars

\* C18: a change of a tick whose offer was refused is in the changes of the
\* next tick when the file still has the content that differed from
\* old_version.
C18_RejectedOfferedAgain ==
    [][scan_loop_iteration =>
        \A i \in 1..Len(last_tick.changes) :
            LET c == last_tick.changes[i]
            IN  (/\ last_tick.offered
                 /\ ~last_tick.started
                 /\ disk[c.path].kind = "file"
                 /\ disk[c.path].content = c.new_version
                 /\ c.new_version # c.old_version) =>
                    /\ Reported(last_tick'.changes, c.path)
                    /\ last_tick'.offered
    ]_vars

(***************************************************************************)
(* Further properties of the coordinator.                                  *)
(***************************************************************************)
\* C21: with max_concurrent_pipelines = 1, chat inactive and another project
\* in flight, execute_if_available for a project that is not in flight
\* returns True.
C21_OtherProjectAdmitted ==
    (/\ last_call.op = "execute_if_available"
     /\ max_concurrent_pipelines = 1
     /\ ~last_call.chat
     /\ ~last_call.was_running
     /\ last_call.at_capacity) => last_call.result

\* C23: get_pipeline_status changes neither the in-flight set nor the chat
\* flag; in every state its can_start_new_pipeline equals what
\* can_start_pipeline returns for each project that is not in flight, its
\* running_count is the size of the in-flight set, and its capacity_available
\* is true exactly when running_count < max_concurrent.
C23_StatusReadOnlyAndExact ==
    /\ [](/\ \A p \in Projects \ running_pipelines :
                get_pipeline_status.can_start_new_pipeline = can_start_pipeline(p)
          /\ get_pipeline_status.running_count = Cardinality(running_pipelines)
          /\ get_pipeline_status.capacity_available
                <=> (get_pipeline_status.running_count
                        < get_pipeline_status.max_concurrent))
    /\ [][get_pipeline_status_call =>
            /\ UNCHANGED <<running_pipelines, is_chat_active, tasks>>
            /\ last_call'.result = get_pipeline_status.can_start_new_pipeline]_vars

\* C23 witness: the status was read with a run in flight, room for another
\* and chat active, and it said that no pipeline can start.
C23_Witness ==
    /\ last_call.op = "get_pipeline_status"
    /\ running_pipelines # {}
    /\ ~last_call.at_capacity
    /\ last_call.chat
    /\ ~last_call.result
    /\ Projects \ running_pipelines # {}

\* C30: the in-flight set changes only when execute_if_available adds the
\* project it admits and when the task of a project ends and removes it;
\* setting the chat flag leaves the in-flight set and the tasks alone; every
\* task that has not ended (awaiting the pipeline or the delivery of the
\* notification) has its project in the set; and whatever the chat flag is,
\* every task can take its next step.
C30_InFlightSetChanges ==
    /\ [][running_pipelines' # running_pipelines =>
            \/ \E p \in Projects :
                  /\ execute_if_available(p)
                  /\ can_start_pipeline(p)
                  /\ running_pipelines' = running_pipelines \cup {p}
            \/ \E t \in DOMAIN tasks :
                  /\ TaskEnds(t)
                  /\ running_pipelines' = running_pipelines \ {tasks[t].project_id}]_vars
    /\ [][((\E n \in NotificationIds : set_chat_active(n)) \/ set_chat_inactive) =>
            UNCHANGED <<running_pipelines, tasks>>]_vars
    /\ [](\A t \in DOMAIN tasks :
            /\ tasks[t].project_id \in running_pipelines
            /\ tasks[t].pc = "scheduled" => ENABLED task_start(t)
            /\ tasks[t].pc = "pipeline" => ENABLED pipeline_returns(t, "output")
            /\ tasks[t].pc = "notify" => ENABLED notify_returns(t, "notified"))

\* C30 witness: a run was admitted, chat is active, and the task is waiting
\* for the delivery of its notification with its project still in flight.
C30_Witness ==
    /\ is_chat_active
    /\ last_call.op = "execute_if_available" /\ last_call.result /\ ~last_call.chat
    /\ \E t \in DOMAIN tasks :
            tasks[t].pc = "notify" /\ tasks[t].project_id \in running_pipelines

\* C22: wait_for_completion with a finite timeout always returns; when it
\* returns True the in-flight set is empty at that moment (at once when it is
\* empty on entry); when it returns False the timeout has elapsed and a run is
\* still in flight; and its steps leave the in-flight set and the tasks alone.
C22_WaitForCompletion ==
    /\ (waiter.pc = "sleeping" /\ waiter.timeout # None) ~> (waiter.pc = "returned")
    /\ [][(waiter.pc # "returned" /\ waiter'.pc = "returned") =>
            /\ waiter'.result =>
                    running_pipelines = {} /\ running_pipelines' = {}
            /\ ~waiter'.result =>
                    /\ waiter'.timeout # None
                    /\ waiter'.elapsed >= Get(waiter'.timeout)
                    /\ running_pipelines' # {}]_vars
    /\ [][(waiter.pc = "idle" /\ waiter'.pc # "idle" /\ running_pipelines = {}) =>
            (waiter'.pc = "returned" /\ waiter'.result)]_vars
    /\ [][waiter' # waiter => UNCHANGED <<running_pipelines, tasks>>]_vars

\* C22 witness: a call with the longest timeout slept, and returned False
\* with a run still in flight.
C22_Witness ==
    /\ waiter.pc = "returned"
    /\ ~waiter.result
    /\ waiter.timeout = Some(MaxTimeout)
    /\ waiter.elapsed = MaxTimeout
    /\ running_pipelines # {}

(***************************************************************************)
(* Further properties of a pipeline run.                                   *)
(***************************************************************************)
\* C24: when should_process is false for a stage, analyze of that stage is
\* not invoked, the warning, the notification and the solution stay as they
\* are, and the run goes on with the next stage.
C24_SkipLeavesState ==
    [][stage_skipped =>
        /\ UNCHANGED <<context, notification, solution, output>>
        /\ last_invoked' = last_invoked
        /\ pstatus' = "RUNNING"
        /\ stage' = stage + 1]_vars

\* C24 witness: the solution writer was skipped after the notification
\* writer had written its text; the run is at the end of the list.
C24_Witness ==
    /\ last_event = Event(NumAgents, "skip")
    /\ last_invoked = NumAgents - 1
    /\ notification # ""
    /\ pstatus = "RUNNING"
    /\ stage = NumAgents + 1

\* C25: the notification writer and the solution writer leave the warning
\* unchanged and assign only the notification, respectively the solution;
\* nothing else assigns these strings after the start of the run, so each is
\* empty when its stage was skipped or raised; and the output carries them.
C25_WriterResultsSeparate ==
    /\ [][run_NotificationWriter =>
            UNCHANGED <<context, solution>>]_vars
    /\ [][run_CodeWriter =>
            UNCHANGED <<context, notification>>]_vars
    /\ [][(notification' # notification /\ pstatus # "NOT_STARTED") =>
            run_NotificationWriter]_vars
    /\ [][(solution' # solution /\ pstatus # "NOT_STARTED") =>
            run_CodeWriter]_vars
    /\ [][((stage_skipped \/ stage_raises) /\ Agents[stage] = "NotificationWriter") =>
            notification' = ""]_vars
    /\ [][((stage_skipped \/ stage_raises) /\ Agents[stage] = "CodeWriter") =>
            solution' = ""]_vars
    /\ [](output # None =>
            /\ Get(output).notification = notification
            /\ Get(output).solution = solution
            /\ Get(output).warning = WarningOf(context))

\* C25 witness: an output whose notification is the text the writer
\* returned and whose solution is empty because the solution writer raised.
C25_Witness ==
    /\ output # None
    /\ Get(output).notification # ""
    /\ Get(output).solution = ""
    /\ last_event = Event(NumAgents, "raise")

\* C26: the context is made from the first change only (a list gives the
\* context its one-element list of the same first change gives), the context
\* and the output carry the first change's versions and path, and an empty
\* list gives no context and no output.
C26_FirstChangeOnly ==
    /\ changes = <<>> => (context = None /\ output = None
                            /\ pstatus \in {"NOT_STARTED", "REJECTED"})
    /\ changes # <<>> =>
          /\ \A w \in InitialWarnings :
                create_context_from_changes(changes, run_project_id, w)
                    = create_context_from_changes(<<changes[1]>>, run_project_id, w)
          /\ context # None =>
                /\ Ctx.old_version = changes[1].old_version
                /\ Ctx.new_version = changes[1].new_version
                /\ Ctx.file_path = changes[1].path
          /\ output # None =>
                /\ Get(output).old_version = changes[1].old_version
                /\ Get(output).new_version = changes[1].new_version
                /\ Get(output).file_path = changes[1].path
          /\ (pstatus # "NOT_STARTED" /\ context = None) =>
                ~is_valid_content(changes[1], changes[1].old_version,
                                  changes[1].new_version)

\* C26 witness: a list of two changes gave an output for the first one; a
\* list whose first change is not valid was rejected whatever follows.
C26_Witness ==
    /\ Len(changes) = 2
    /\ changes[2].path # changes[1].path
    /\ output # None
    /\ Get(output).file_path = changes[1].path
    /\ Get(output).new_version = changes[1].new_version

\* The severity the warning is to have after the stage: one level up for
\* 'increase' below 'critical', one level down for 'decrease' above 'low',
\* unchanged otherwise.
SeverityAfter(severity, adjustment) ==
    IF ~(\E i \in DOMAIN severity_levels : severity_levels[i] = severity)
      THEN severity
    ELSE LET i == IndexOf(severity_levels, severity)
         IN  IF adjustment = "increase" /\ severity # "critical"
               THEN severity_levels[i + 1]
             ELSE IF adjustment = "decrease" /\ severity # "low"
               THEN severity_levels[i - 1]
             ELSE severity

\* C28: when the SyntaxValidation stage runs on a warning and its analysis
\* asks for a severity adjustment, the warning the stage returns has the
\* severity moved by one level in low < medium < high < critical ('increase'
\* below critical, 'decrease' above low) and unchanged otherwise.
C28_SeverityAdjusted ==
    (/\ Running(stage)
     /\ Agents[stage] = "SyntaxValidation"
     /\ Truthy(Ctx.current_warning)) =>
        \A adjustment \in SeverityAdjustments :
            Get(SyntaxValidation_analyze(Ctx, FALSE, adjustment)[2]).severity
                = SeverityAfter(Get(Ctx.current_warning).severity, adjustment)

(***************************************************************************)
(* Further properties of the scanner.                                      *)
(***************************************************************************)
\* C27: in every iteration that finds changes, the write to the table is
\* attempted first and execute_if_available is called next, whether the
\* write succeeded or failed and whether or not the run is admitted.
C27_WriteThenOffer ==
    [][scan_loop_iteration =>
        (last_tick'.changes # <<>> =>
            /\ Len(last_tick'.steps) = 2
            /\ last_tick'.steps[1] \in {"write", "write_failed"}
            /\ last_tick'.steps[2] = "offer"
            /\ last_tick'.steps[1] = "write" =>
                    db' = post_changes(db, last_tick'.changes)
            /\ last_tick'.steps[1] = "write_failed" => db' = db
            /\ last_call'.op = "execute_if_available"
            /\ last_call'.result = can_start_pipeline(ScanProject)
            /\ last_call'.result =>
                    ScanProject \in running_pipelines')]_vars

\* C27 witness: the write of a tick failed and its offer was refused.
C27_Witness ==
    /\ last_tick.changes # <<>>
    /\ last_tick.steps = <<"write_failed", "offer">>
    /\ ~last_tick.started
    /\ last_call.op = "execute_if_available"
    /\ ~last_call.result

====
